---- MODULE Spec2Model ----
(***************************************************************************)
(* Model of keyboard.py (SHA2017 badge keyboard): the range partitioner    *)
(* gen_range and the CharacterInput navigation state machine               *)
(* (select_range, maybe_back), driven by arbitrary sequences of calls.     *)
(*                                                                         *)
(* Python exceptions are modelled as outcomes of the operation: the fields *)
(* assigned before the raise keep their new values, the statements after   *)
(* the raise are not executed.                                             *)
(***************************************************************************)
EXTENDS Integers, Sequences, FiniteSets, TLC

\* Largest ordinal of the small construction ranges explored besides the
\* two ranges the source itself uses.
MaxOrd == 5

NUM_RANGES == 4

ASCII_RANGE == <<0, 128>>

\* The range of CharacterInputTest.test_start_gt_end.
TEST_RANGE == <<32, 136>>

\* The select_range arguments of CharacterInputTest.test_start_gt_end.
TEST_SCRIPT == <<1, 1, 1, 1, 2>>

Branches == 0 .. (NUM_RANGES - 1)

\* Construction ranges: every (s, e) with 0 <= s <= e <= MaxOrd, the default
\* range and the test range.
Ranges ==
  {ASCII_RANGE, TEST_RANGE} \cup
  {r \in (0 .. MaxOrd) \X (0 .. MaxOrd) : r[1] <= r[2]}

\* math.floor(a / b) and math.ceil(a / b) for b > 0.
Floor(a, b) == a \div b

Ceil(a, b) == -((-a) \div b)

\* gen_range mutated: chunk_size computed with integer division, as "/"
\* does on integers in Python 2.
gen_range_intdiv(f, to, n, m) ==
  <<f + ((to - f) \div m) * n, f + ((to - f) \div m) * (n + 1)>>

\* gen_range mutated: chunk_size = (to - f + 1) / m, the interval width
\* counted inclusively.
gen_range_inclusive(f, to, n, m) ==
  <<Ceil(f * m + (to - f + 1) * n, m), Floor(f * m + (to - f + 1) * (n + 1), m)>>

\* gen_range: chunk_size = (to - f) / m is a float; f + chunk_size * n is
\* the rational (f*m + (to - f)*n) / m, which the float arithmetic computes
\* exactly for m = 4 and the ordinals used here.
gen_range(f, to, n, m) ==
  <<Ceil(f * m + (to - f) * n, m), Floor(f * m + (to - f) * (n + 1), m)>>

\* chr(n): the character whose code point is n.
chr(n) == [codepoint |-> n]

\* chr(n) raises ValueError unless n is in range(0x110000).
ValidCodepoint(n) == 0 <= n /\ n < 1114112

VARIABLES ascii_range, stack, start, end, last, pre, prevlast, prevpre, followed,
          buf, prebuf, key, presses

vars == <<ascii_range, stack, start, end, last, pre, prevlast, prevpre, followed,
          buf, prebuf, key, presses>>

\* The navigation state of the CharacterInput object.
Core == [stack |-> stack, start |-> start, end |-> end]

Construct == [op |-> "__init__", branch |-> -1, outcome |-> "ok", callback |-> <<>>]

\* self.stack[-1] mutated: the bottom frame instead of the top one.
StackTopBottom(stk) == stk[1]

\* self.stack[-1] of a non-empty stack.
StackTop(stk) == stk[Len(stk)]

\* self.stack.pop(): the stack without its last frame.
Pop(stk) == SubSeq(stk, 1, Len(stk) - 1)

\* push mutated: the frame is pushed with its bounds swapped.
PushFrameSwapped(stk, s, e) == Append(stk, <<e, s>>)

\* self.stack.append((self.start, self.end))
PushFrame(stk, s, e) == Append(stk, <<s, e>>)

\* guard of maybe_back mutated: len(self.stack) >= 1.
CanGoBackAtRoot(stk) == Len(stk) >= 1

\* guard of maybe_back: len(self.stack) > 1.
CanGoBack(stk) == Len(stk) > 1

\* select_range mutated: the start > end check is made after the branch
\* that pushes or collapses instead of before it.
select_range_latecheck(stk, s0, e0, b) ==
  LET r == gen_range(s0, e0, b, NUM_RANGES)
      s == r[1]
      e == r[2]
  IN  IF s = e
        THEN IF ~ValidCodepoint(e)
               THEN [stack |-> stk, start |-> s, end |-> e,
                     outcome |-> "ValueError", callback |-> <<>>]
             ELSE IF stk = <<>>
               THEN [stack |-> stk, start |-> s, end |-> e,
                     outcome |-> "IndexError", callback |-> <<>>]
             ELSE IF Pop(stk) = <<>>
               THEN [stack |-> Pop(stk), start |-> s, end |-> e,
                     outcome |-> "IndexError", callback |-> <<>>]
             ELSE [stack |-> Pop(stk),
                   start |-> StackTop(Pop(stk))[1], end |-> StackTop(Pop(stk))[2],
                   outcome |-> "emitted", callback |-> <<chr(e)>>]
      ELSE [stack |-> PushFrame(stk, s, e), start |-> s, end |-> e,
            outcome |-> IF s > e THEN "RuntimeError" ELSE "pushed",
            callback |-> <<>>]

\* select_range(b) applied to the navigation state (stk, s0, e0): the
\* state it leaves, how it ended and the arguments the callback got.
select_range(stk, s0, e0, b) ==
  LET r == gen_range(s0, e0, b, NUM_RANGES)
      s == r[1]
      e == r[2]
  IN  IF s > e
        THEN [stack |-> stk, start |-> s, end |-> e,
              outcome |-> "RuntimeError", callback |-> <<>>]
      ELSE IF s = e
        THEN IF ~ValidCodepoint(e)
               \* c = chr(self.end) raises ValueError
               THEN [stack |-> stk, start |-> s, end |-> e,
                     outcome |-> "ValueError", callback |-> <<>>]
             ELSE IF stk = <<>>
               \* self.stack.pop() raises IndexError: pop from empty list
               THEN [stack |-> stk, start |-> s, end |-> e,
                     outcome |-> "IndexError", callback |-> <<>>]
             ELSE IF Pop(stk) = <<>>
               \* self.stack[-1] raises IndexError: list index out of range
               THEN [stack |-> Pop(stk), start |-> s, end |-> e,
                     outcome |-> "IndexError", callback |-> <<>>]
             ELSE [stack |-> Pop(stk),
                   start |-> StackTop(Pop(stk))[1], end |-> StackTop(Pop(stk))[2],
                   outcome |-> "emitted", callback |-> <<chr(e)>>]
      ELSE [stack |-> PushFrame(stk, s, e), start |-> s, end |-> e,
            outcome |-> "pushed", callback |-> <<>>]

\* maybe_back() applied to the navigation state (stk, s0, e0).
maybe_back(stk, s0, e0) ==
  IF CanGoBack(stk)
    THEN IF Pop(stk) = <<>>
           THEN [stack |-> Pop(stk), start |-> s0, end |-> e0,
                 outcome |-> "IndexError", callback |-> <<>>]
         ELSE [stack |-> Pop(stk),
               start |-> StackTop(Pop(stk))[1], end |-> StackTop(Pop(stk))[2],
               outcome |-> "popped", callback |-> <<>>]
  ELSE [stack |-> stk, start |-> s0, end |-> e0,
        outcome |-> "root", callback |-> <<>>]

\* CharacterInput(callback, ascii_range): stack = [ascii_range], then reset().
Init ==
  /\ ascii_range \in Ranges
  /\ stack = <<ascii_range>>
  /\ start = ascii_range[1]
  /\ end = ascii_range[2]
  /\ last = Construct
  /\ pre = [stack |-> <<ascii_range>>, start |-> ascii_range[1], end |-> ascii_range[2]]
  /\ prevlast = Construct
  /\ prevpre = pre
  /\ followed = 0
  /\ buf = <<>>
  /\ prebuf = <<>>
  /\ key = "none"
  /\ presses = 0

\* Bookkeeping shared by the operations: what the last two calls were and
\* the navigation state each of them started from.
Record(op, b, res) ==
  /\ last' = [op |-> op, branch |-> b, outcome |-> res.outcome, callback |-> res.callback]
  /\ pre' = Core
  /\ prevlast' = last
  /\ prevpre' = pre

\* A call of select_range(b).
Select(b) ==
  LET res == select_range(stack, start, end, b)
  IN  /\ stack' = res.stack
      /\ start' = res.start
      /\ end' = res.end
      /\ Record("select_range", b, res)
      /\ followed' = IF /\ followed >= 0
                        /\ followed < Len(TEST_SCRIPT)
                        /\ TEST_SCRIPT[followed + 1] = b
                       THEN followed + 1
                       ELSE -1
      /\ UNCHANGED ascii_range

\* A call of maybe_back().
Backtrack ==
  LET res == maybe_back(stack, start, end)
  IN  /\ stack' = res.stack
      /\ start' = res.start
      /\ end' = res.end
      /\ Record("maybe_back", -1, res)
      /\ followed' = -1
      /\ UNCHANGED ascii_range

\* The Editor's buffer is untouched by calls made directly on the
\* CharacterInput (the tests pass a mock callback).
EditorIdle == UNCHANGED <<buf, prebuf, key, presses>>

Next ==
  \/ \E b \in Branches : Select(b) /\ EditorIdle
  \/ Backtrack /\ EditorIdle

\* The calls made on a CharacterInput after construction: Editor.key_pressed
\* and the tests call only select_range and maybe_back; reset() is called by
\* __init__ alone.
Spec == Init /\ [][Next]_vars

\* Deepest stack at which the outside caller of SpecReset calls reset().
MaxResetDepth == 2

\* reset() mutated: it also truncates the stack to the root frame.
reset_truncating(stk, rng) ==
  [stack |-> <<rng>>, start |-> rng[1], end |-> rng[2],
   outcome |-> "ok", callback |-> <<>>]

\* reset(): self.start, self.end = self.ascii_range.
reset(stk, rng) ==
  [stack |-> stk, start |-> rng[1], end |-> rng[2],
   outcome |-> "ok", callback |-> <<>>]

\* A call of reset() by an outside caller.
Reset ==
  LET res == reset(stack, ascii_range)
  IN  /\ Len(stack) <= MaxResetDepth
      /\ stack' = res.stack
      /\ start' = res.start
      /\ end' = res.end
      /\ Record("reset", -1, res)
      /\ followed' = -1
      /\ UNCHANGED ascii_range

NextReset ==
  \/ \E b \in Branches : Select(b) /\ EditorIdle
  \/ Backtrack /\ EditorIdle
  \/ Reset /\ EditorIdle

\* A CharacterInput whose caller also uses the public reset().
SpecReset == Init /\ [][NextReset]_vars

\* Branch indexes just outside [0, NUM_RANGES), as a caller other than
\* Editor.key_pressed can pass them to select_range.
OutOfRange == {-1, NUM_RANGES}

\* How far outside the construction range the current interval may lie when
\* the caller of SpecCaller passes an out-of-range index.
MaxStray == 2

\* A call of select_range(b) with b outside [0, NUM_RANGES).
SelectOutOfRange(b) ==
  /\ start >= ascii_range[1] - MaxStray
  /\ end <= ascii_range[2] + MaxStray
  /\ Select(b)

NextCaller ==
  \/ \E b \in Branches : Select(b) /\ EditorIdle
  \/ \E b \in OutOfRange : SelectOutOfRange(b) /\ EditorIdle
  \/ Backtrack /\ EditorIdle

\* A CharacterInput whose caller does not keep to the branch indexes 0..3.
SpecCaller == Init /\ [][NextCaller]_vars

\* Most key presses of one Editor session explored.
MaxKeys == 6

\* RANGE_ORDER mutated: JOY_LEFT and JOY_UP swapped.
RANGE_ORDER_swapped == <<"JOY_UP", "JOY_LEFT", "JOY_RIGHT", "JOY_DOWN">>

\* Editor.RANGE_ORDER
RANGE_ORDER == <<"JOY_LEFT", "JOY_UP", "JOY_RIGHT", "JOY_DOWN">>

\* The keys init_input attaches a closure to.
Keys == {RANGE_ORDER[i] : i \in 1 .. Len(RANGE_ORDER)} \cup {"BTN_START", "BTN_SELECT"}

\* self.RANGE_ORDER.index(k), counted from 0.
RangeIndex(k) == (CHOOSE i \in 1 .. Len(RANGE_ORDER) : RANGE_ORDER[i] = k) - 1

\* Editor.got_character: self.buf += the_character
got_character(b, c) == Append(b, c)

\* self.buf[:-1]
DropLast(b) == SubSeq(b, 1, Len(b) - 1)

\* Editor.key_pressed(k), called by the closure init_input attached to k.
\* An exception of select_range propagates out of key_pressed: the buffer
\* is then untouched.  display_state only draws and is not modelled.
key_pressed(k) ==
  /\ presses < MaxKeys
  /\ presses' = presses + 1
  /\ key' = k
  /\ prebuf' = buf
  /\ IF k \in {RANGE_ORDER[i] : i \in 1 .. Len(RANGE_ORDER)}
       THEN /\ Select(RangeIndex(k))
            /\ buf' = IF last'.callback = <<>>
                        THEN buf
                        ELSE got_character(buf, last'.callback[1])
     ELSE IF k = "BTN_START"
       THEN /\ Backtrack
            /\ buf' = buf
     ELSE IF k = "BTN_SELECT"
       THEN /\ buf' = DropLast(buf)
            /\ Record("backspace", -1, [outcome |-> "ok", callback |-> <<>>])
            /\ UNCHANGED <<ascii_range, stack, start, end, followed>>
     ELSE UNCHANGED <<ascii_range, stack, start, end, last, pre, prevlast, prevpre,
                      followed, buf>>

\* Editor(ugfx): an empty buffer and a CharacterInput on the default range.
InitEditor == Init /\ ascii_range = ASCII_RANGE

NextEditor == \E k \in Keys : key_pressed(k)

\* The Editor driven by key presses.
SpecEditor == InitEditor /\ [][NextEditor]_vars

TypeOK ==
  /\ ascii_range \in Ranges
  /\ start \in Int
  /\ end \in Int
  /\ last.op \in {"__init__", "select_range", "maybe_back", "reset", "backspace"}
  /\ last.outcome \in {"ok", "pushed", "emitted", "RuntimeError", "IndexError",
                       "ValueError", "popped", "root"}
  /\ followed \in -1 .. Len(TEST_SCRIPT)

(***************************************************************************)
(* Properties.  pre is the navigation state the last call started from,    *)
(* prevpre the one the call before it started from.                        *)
(***************************************************************************)

\* The sub-interval the last select_range call computed.
LastRange == gen_range(pre.start, pre.end, last.branch, NUM_RANGES)

\* The sub-interval the select_range call before the last call computed.
PrevRange == gen_range(prevpre.start, prevpre.end, prevlast.branch, NUM_RANGES)

\* The branches of the current interval that contain ordinal k.
BranchesWith(k) ==
  {n \in Branches : LET r == gen_range(start, end, n, NUM_RANGES)
                    IN  r[1] <= k /\ k <= r[2]}

\* C1: for an interval with from <= to the four sub-intervals of gen_range
\* each have start <= end, and every ordinal of from..to belongs to exactly
\* one branch (none to two branches, none left out).
C1_PartitionTiles ==
  start <= end =>
    /\ \A n \in Branches :
         gen_range(start, end, n, NUM_RANGES)[1] <= gen_range(start, end, n, NUM_RANGES)[2]
    /\ \A k \in start .. end : Cardinality(BranchesWith(k)) = 1

\* C2: from range (32, 136) the calls select(1), select(1), select(1),
\* select(1), select(2) never raise the start > end fault, and the last of
\* them emits a character through the callback.
C2_TestScriptEmits ==
  (ascii_range = TEST_RANGE /\ followed >= 1) =>
    /\ last.outcome # "RuntimeError"
    /\ followed = Len(TEST_SCRIPT) => Len(last.callback) = 1

\* C3: a select whose computed sub-interval has start = end leaves the stack
\* and the current interval as they were before the call.
C3_CollapseKeepsNavigation ==
  (last.op = "select_range" /\ LastRange[1] = LastRange[2]) => Core = pre

\* C4: a select invokes the callback exactly once, with the character of the
\* single ordinal, if its computed sub-interval has start = end, and zero
\* times otherwise.
C4_CallbackIffCollapse ==
  last.op = "select_range" =>
    IF LastRange[1] = LastRange[2]
      THEN last.callback = <<chr(LastRange[1])>>
      ELSE last.callback = <<>>

\* C5: no sequence of select and backtrack calls leaves the stack empty.
C5_StackNeverEmpty == Len(stack) >= 1

\* C6: the current interval always has start <= end and no select raises
\* the start > end fault.
C6_StartLeEnd == start <= end /\ last.outcome # "RuntimeError"

\* C7: between operations the top of the stack is the current interval.
C7_TopIsCurrent == Len(stack) >= 1 /\ stack[Len(stack)] = <<start, end>>

C9_BacktrackFrame ==
  last.op = "maybe_back" =>
    /\ last.outcome \in {"popped", "root"}
    /\ IF Len(pre.stack) > 1
         THEN /\ stack = SubSeq(pre.stack, 1, Len(pre.stack) - 1)
              /\ <<start, end>> = stack[Len(stack)]
         ELSE Core = pre
    /\ Len(pre.stack) >= 1 => Len(stack) >= 1

\* C9 witness: a backtrack that popped down to the root followed by a
\* backtrack at the root.
C9_Witness ==
  /\ last.op = "maybe_back"
  /\ prevlast.op = "maybe_back"
  /\ Len(prevpre.stack) = 2
  /\ Len(pre.stack) = 1
  /\ Len(stack) = 1

\* C10: a select whose computed sub-interval has start < end makes it the
\* current interval and pushes it: depth + 1, frames below unchanged, no
\* callback.  From the fresh (0, 128) input no branch collapses and
\* select(2) changes both start and end.
C10_SelectPushes ==
  last.op = "select_range" =>
    /\ LastRange[1] < LastRange[2] =>
         /\ last.outcome = "pushed"
         /\ Len(stack) = Len(pre.stack) + 1
         /\ SubSeq(stack, 1, Len(pre.stack)) = pre.stack
         /\ stack[Len(stack)] = LastRange
         /\ <<start, end>> = LastRange
         /\ last.callback = <<>>
    /\ pre = [stack |-> <<ASCII_RANGE>>, start |-> ASCII_RANGE[1], end |-> ASCII_RANGE[2]] =>
         /\ LastRange[1] < LastRange[2]
         /\ last.branch = 2 => (start # pre.start /\ end # pre.end)

\* C10 witness: the scenario of test_select_range_2.
C10_Witness ==
  /\ last.op = "select_range"
  /\ last.branch = 2
  /\ pre = [stack |-> <<ASCII_RANGE>>, start |-> ASCII_RANGE[1], end |-> ASCII_RANGE[2]]
  /\ Len(stack) = 2

\* C11: in every state reachable by select, backtrack and reset the bottom
\* element of the stack is the range passed at construction.
C11_BottomIsFullRange == Len(stack) >= 1 /\ stack[1] = ascii_range

\* C15: reset() sets the current interval to the construction range, leaves
\* the stack exactly as it was and invokes no callback.
C15_ResetFrame ==
  last.op = "reset" =>
    /\ <<start, end>> = ascii_range
    /\ stack = pre.stack
    /\ last.callback = <<>>
    /\ last.outcome = "ok"

\* C15 witness: reset() called with a stack deeper than 1 and a current
\* interval that was not the construction range.
C15_Witness ==
  /\ last.op = "reset"
  /\ Len(pre.stack) > 1
  /\ <<pre.start, pre.end>> # ascii_range
  /\ Len(stack) > 1

\* C12: a select with a branch index outside [0, NUM_RANGES) is rejected:
\* it changes neither the stack nor the current interval, invokes no
\* callback, and its failure is not the start > end fault.
C12_OutOfRangeRejected ==
  (last.op = "select_range" /\ last.branch \notin Branches) =>
    /\ Core = pre
    /\ last.callback = <<>>
    /\ last.outcome \notin {"pushed", "emitted", "RuntimeError"}

C14_OneElementInterval ==
  /\ start = end =>
       \A n \in Branches : gen_range(start, end, n, NUM_RANGES) = <<start, start>>
  /\ (last.op = "select_range" /\ pre.start = pre.end) =>
       LastRange = <<pre.start, pre.start>>

\* C14 witness: a select applied to a one-element interval.
C14_Witness ==
  /\ last.op = "select_range"
  /\ pre.start = pre.end
  /\ start = end

\* The errors a call can raise.
Errors == {"RuntimeError", "IndexError", "ValueError"}

\* C16: with the default range (0, 128) no call raises an error, the stack
\* depth stays between 1 and 4, and every select made at depth 4 collapses
\* and emits a character.
C16_DefaultRangeSafe ==
  ascii_range = ASCII_RANGE =>
    /\ last.outcome \notin Errors
    /\ 1 <= Len(stack) /\ Len(stack) <= 4
    /\ Len(stack) = 4 =>
         \A n \in Branches :
           gen_range(start, end, n, NUM_RANGES)[1] = gen_range(start, end, n, NUM_RANGES)[2]
    /\ (last.op = "select_range" /\ Len(pre.stack) = 4) =>
         /\ last.outcome = "emitted"
         /\ last.callback = <<chr(LastRange[1])>>

\* C16 witness: a select made at depth 4 of the default range.
C16_Witness ==
  /\ ascii_range = ASCII_RANGE
  /\ last.op = "select_range"
  /\ Len(pre.stack) = 4
  /\ last.outcome = "emitted"

\* end - start of a frame.
Width(frame) == frame[2] - frame[1]

C19_FaultKeepsStack ==
  (last.op = "select_range" /\ LastRange[1] > LastRange[2]) =>
    /\ last.outcome = "RuntimeError"
    /\ stack = pre.stack
    /\ last.callback = <<>>

\* C19 witness: the fault of test_start_gt_end, raised at depth 4.
C19_Witness ==
  /\ ascii_range = TEST_RANGE
  /\ followed = 4
  /\ last.outcome = "RuntimeError"
  /\ Len(stack) = 4

\* Longest sequence of select calls tried when looking for a way to type
\* an ordinal.
MaxPath == 4

\* The result of calling select_range with each branch of path in turn,
\* starting from the navigation state of res.
RECURSIVE RunSelects(_, _)
RunSelects(res, path) ==
  IF path = <<>>
    THEN res
    ELSE RunSelects(select_range(res.stack, res.start, res.end, Head(path)), Tail(path))

\* The ordinals whose character the callback receives at the end of some
\* sequence of at most MaxPath select calls made from the current state.
Typeable ==
  LET from == [stack |-> stack, start |-> start, end |-> end,
               outcome |-> "ok", callback |-> <<>>]
      paths == UNION {[1 .. n -> Branches] : n \in 1 .. MaxPath}
      ends == {RunSelects(from, p) : p \in paths}
  IN  {res.callback[1].codepoint : res \in {x \in ends : x.outcome = "emitted"}}

\* C17: from the freshly constructed default input, every ordinal of
\* 0..128 is emitted by some finite sequence of select calls.
C17_EveryOrdinalTypeable ==
  (ascii_range = ASCII_RANGE /\ last.op = "__init__") =>
    (ASCII_RANGE[1] .. ASCII_RANGE[2]) \subseteq Typeable

\* C17 witness: the state machine emits the last ordinal of the default
\* range.
C17_Witness ==
  /\ ascii_range = ASCII_RANGE
  /\ last.op = "select_range"
  /\ last.callback = <<chr(ASCII_RANGE[2])>>

\* C20: each key press changes the buffer as follows: a joystick key
\* LEFT, UP, RIGHT, DOWN calls select with branch 0, 1, 2, 3 and appends
\* the emitted character, if any; BTN_START calls backtrack and leaves the
\* buffer alone; BTN_SELECT removes the last character (nothing from an
\* empty buffer) and changes neither the stack nor the current interval.
C20_EditorBuffer ==
  /\ key \in {"JOY_LEFT", "JOY_UP", "JOY_RIGHT", "JOY_DOWN"} =>
       /\ last.op = "select_range"
       /\ key = "JOY_LEFT" => last.branch = 0
       /\ key = "JOY_UP" => last.branch = 1
       /\ key = "JOY_RIGHT" => last.branch = 2
       /\ key = "JOY_DOWN" => last.branch = 3
       /\ buf = IF last.outcome = "emitted"
                  THEN prebuf \o <<chr(LastRange[1])>>
                  ELSE prebuf
  /\ key = "BTN_START" =>
       /\ last.op = "maybe_back"
       /\ buf = prebuf
  /\ key = "BTN_SELECT" =>
       /\ Core = pre
       /\ buf = IF prebuf = <<>> THEN <<>> ELSE SubSeq(prebuf, 1, Len(prebuf) - 1)
       /\ Len(buf) = IF Len(prebuf) = 0 THEN 0 ELSE Len(prebuf) - 1

\* C20 witness: BTN_SELECT removed a character that a select had put in
\* the buffer.
C20_Witness ==
  /\ key = "BTN_SELECT"
  /\ Len(prebuf) = 1
  /\ buf = <<>>

====
